---------------------------- MODULE Spec2Model ----------------------------
(***************************************************************************)
(* Hybrid LSB + DCT image steganography codec (utils.py, lsb_dct.py).      *)
(*                                                                         *)
(* Strings are sequences of Unicode code points, byte strings sequences of *)
(* 0..255, bit lists sequences of 0/1.  A single-channel array is a record *)
(* [h, w, px] with px the row-major flattening; a BGR image is a record    *)
(* [h, w, ch] with ch = <<b, g, r>> the three planes cv2.split returns.    *)
(* A function that may raise returns [err, val]: err = "none" on a normal  *)
(* return, otherwise the text of the ValueError.                           *)
(*                                                                         *)
(* The 8x8 DCT coefficient (4,4) of cv2.dct is                             *)
(*     (1/8) * SUM sigma(y) * sigma(x) * f(y,x),  sigma = + - - + + - - +  *)
(* (the basis 0.5*cos((2k+1)*pi/4) is +-0.35355...), so the coefficient is *)
(* kept exactly, in eighths; changing it by +-1.0 changes every sample of  *)
(* the inverse transform by +-1/8.  The float32 rounding noise of cv2.dct  *)
(* and cv2.idct is not modelled: the transform pair is taken as exact.     *)
(***************************************************************************)
EXTENDS Integers, Sequences, FiniteSets, TLC

VARIABLES
    image,      \* the caller's input array (embed_message's image_bgr)
    message,    \* the message of the last embed_message call
    key,        \* the key of the last embed_message call
    stego,      \* what embed_message returned: [err, val]
    xkey,       \* the key given to extract_message
    recovered,  \* what extract_message returned: [err, val]
    pc,         \* position of the driver
    log,        \* <<message, key>> of every embed_message call so far
    gray,       \* the single-channel array given to dct_embed / dct_extract
    dbits,      \* the bits given to dct_embed
    dstart,     \* start_block
    dlen,       \* the length given to dct_extract
    dout,       \* what dct_embed returned: [err, val]
    dext,       \* what dct_extract returned
    wrapped,    \* the string given to _remove_key_wrap
    unwrapped   \* what _remove_key_wrap returned

vars == <<image, message, key, stego, xkey, recovered, pc, log,
          gray, dbits, dstart, dlen, dout, dext, wrapped, unwrapped>>

--------------------------------------------------------------------------
(* Bounds of the model *)

\* messages are a generated filler of 0..MaxFill characters followed by at most
\* one character of Alphabet
MaxFill == 12
\* bit lists given to dct_embed have at most MaxDctBits bits
MaxDctBits == 2
\* successive embed_message calls on one carrier
MaxEmbeds == 3
\* extract_message is followed for headers below 2^MaxLenBits bytes
MaxLenBits == 10

(* Program constants *)
HeaderLen == 32
BlockSize == 8
CoefPos == 4
KeyAffixLen == 16

None == <<>>
NoErr == "none"
Ok(v) == [err |-> NoErr, val |-> v]
Raise(e) == [err |-> e, val |-> None]

\* F(v), with v evaluated once
With(v, F(_)) == CHOOSE r \in {F(x) : x \in {v}} : TRUE

Min(a, b) == IF a < b THEN a ELSE b
Max(a, b) == IF a > b THEN a ELSE b

--------------------------------------------------------------------------
(* Sequence helpers: Python slices and str methods *)

\* s[a:b] for 0 <= a, with Python's clamping
Slice(s, a, b) ==
    LET hi == Min(b, Len(s))
    IN  IF a >= hi THEN <<>> ELSE [i \in 1..(hi - a) |-> s[a + i]]

startswith(s, p) == Len(p) <= Len(s) /\ \A i \in 1..Len(p) : s[i] = p[i]

endswith(s, p) ==
    Len(p) <= Len(s) /\ \A i \in 1..Len(p) : s[Len(s) - Len(p) + i] = p[i]

--------------------------------------------------------------------------
(* BitCodec *)

Pow2(n) == 2 ^ n

\* f"{n_bytes:032b}": 32 bits, most significant first (n_bytes < 2^31 here,
\* so the leading bit is 0)
_len_prefix_bits(n_bytes) ==
    [i \in 1..HeaderLen |->
        IF HeaderLen - i >= 31 THEN 0 ELSE (n_bytes \div Pow2(HeaderLen - i)) % 2]

\* format(byte, '08b') for every byte
text_to_bits(data) ==
    [i \in 1..(8 * Len(data)) |->
        (data[((i - 1) \div 8) + 1] \div Pow2(7 - ((i - 1) % 8))) % 2]

\* int(''.join(map(str, bits)), 2)
RECURSIVE BitsToInt(_)
BitsToInt(bits) ==
    IF bits = <<>> THEN 0
    ELSE 2 * BitsToInt(SubSeq(bits, 1, Len(bits) - 1)) + bits[Len(bits)]

\* str.encode("utf-8") of one code point
Utf8Char(c) ==
    IF c < 128 THEN <<c>>
    ELSE IF c < 2048 THEN <<192 + (c \div 64), 128 + (c % 64)>>
    ELSE IF c < 65536
         THEN <<224 + (c \div 4096), 128 + ((c \div 64) % 64), 128 + (c % 64)>>
    ELSE <<240 + (c \div 262144), 128 + ((c \div 4096) % 64),
           128 + ((c \div 64) % 64), 128 + (c % 64)>>

RECURSIVE Utf8Encode(_)
Utf8Encode(s) ==
    IF s = <<>> THEN <<>> ELSE Utf8Char(Head(s)) \o Utf8Encode(Tail(s))

IsCont(b) == b >= 128 /\ b <= 191

\* Length of the well-formed UTF-8 sequence starting at bytes[i], 0 if none.
Utf8SeqLen(bytes, i) ==
    LET n  == Len(bytes)
        b0 == bytes[i]
        b1 == bytes[i + 1]
    IN  IF b0 < 128 THEN 1
        ELSE IF b0 >= 194 /\ b0 <= 223
             THEN IF i + 1 <= n /\ IsCont(b1) THEN 2 ELSE 0
        ELSE IF b0 >= 224 /\ b0 <= 239
             THEN IF /\ i + 2 <= n
                     /\ IsCont(b1) /\ IsCont(bytes[i + 2])
                     /\ (b0 = 224 => b1 >= 160)
                     /\ (b0 = 237 => b1 <= 159)
                  THEN 3 ELSE 0
        ELSE IF b0 >= 240 /\ b0 <= 244
             THEN IF /\ i + 3 <= n
                     /\ IsCont(b1) /\ IsCont(bytes[i + 2]) /\ IsCont(bytes[i + 3])
                     /\ (b0 = 240 => b1 >= 144)
                     /\ (b0 = 244 => b1 <= 143)
                  THEN 4 ELSE 0
        ELSE 0

Utf8CodePoint(bytes, i, k) ==
    IF k = 1 THEN bytes[i]
    ELSE IF k = 2 THEN (bytes[i] - 192) * 64 + (bytes[i + 1] - 128)
    ELSE IF k = 3
         THEN (bytes[i] - 224) * 4096 + (bytes[i + 1] - 128) * 64 + (bytes[i + 2] - 128)
    ELSE (bytes[i] - 240) * 262144 + (bytes[i + 1] - 128) * 4096
         + (bytes[i + 2] - 128) * 64 + (bytes[i + 3] - 128)

\* bytes.decode('utf-8', errors='ignore') from position i: a well-formed
\* sequence yields its code point; any other byte is dropped (the bytes of an
\* ill-formed sequence after its first are continuation bytes, dropped in turn)
RECURSIVE Utf8DecodeFrom(_, _)
Utf8DecodeFrom(bytes, i) ==
    IF i > Len(bytes) THEN <<>>
    ELSE LET k == Utf8SeqLen(bytes, i)
         IN  IF k = 0 THEN Utf8DecodeFrom(bytes, i + 1)
             ELSE <<Utf8CodePoint(bytes, i, k)>> \o Utf8DecodeFrom(bytes, i + k)

\* chunks of 8 bits, an incomplete trailing chunk ignored
bits_to_text(bits) ==
    LET byte_values ==
            [j \in 1..(Len(bits) \div 8) |-> BitsToInt(Slice(bits, 8 * (j - 1), 8 * j))]
    IN  Utf8DecodeFrom(byte_values, 1)

--------------------------------------------------------------------------
(* KeyWrap *)

\* hashlib.sha256(str(key).encode()).hexdigest(), tabulated for the keys of
\* the model (the 64 hex characters as code points)
sha256_hexdigest(k) ==
    CASE k = "abc" ->
      <<98, 97, 55, 56, 49, 54, 98, 102, 56, 102, 48, 49, 99, 102, 101, 97,
        52, 49, 52, 49, 52, 48, 100, 101, 53, 100, 97, 101, 50, 50, 50, 51,
        98, 48, 48, 51, 54, 49, 97, 51, 57, 54, 49, 55, 55, 97, 57, 99,
        98, 52, 49, 48, 102, 102, 54, 49, 102, 50, 48, 48, 49, 53, 97, 100>>
      [] k = "xyz" ->
      <<51, 54, 48, 56, 98, 99, 97, 49, 101, 52, 52, 101, 97, 54, 99, 52,
        100, 50, 54, 56, 101, 98, 54, 100, 98, 48, 50, 50, 54, 48, 50, 54,
        57, 56, 57, 50, 99, 48, 98, 52, 50, 98, 56, 54, 98, 98, 102, 49,
        101, 55, 55, 97, 54, 102, 97, 49, 54, 99, 51, 99, 57, 50, 56, 50>>
      [] k = "il" ->
      <<97, 48, 102, 98, 57, 48, 51, 53, 50, 53, 100, 99, 49, 48, 100, 99,
        99, 97, 97, 52, 98, 100, 55, 50, 98, 101, 100, 52, 102, 101, 53, 98,
        50, 52, 97, 101, 56, 51, 52, 54, 98, 56, 97, 55, 51, 52, 51, 101,
        100, 99, 101, 56, 52, 49, 55, 50, 102, 101, 98, 55, 48, 56, 53, 97>>

\* h[:16] and h[-16:]
KeyPrefix(k) == Slice(sha256_hexdigest(k), 0, KeyAffixLen)
KeySuffix(k) == Slice(sha256_hexdigest(k), 64 - KeyAffixLen, 64)

\* "Invalid Key!"
InvalidKey == <<73, 110, 118, 97, 108, 105, 100, 32, 75, 101, 121, 33>>

_apply_key_wrap(msg, k) ==
    IF k = "" THEN msg
    ELSE KeyPrefix(k) \o msg \o KeySuffix(k)

\* _remove_key_wrap without the startswith / endswith test
_remove_key_wrap_Unchecked(w, k) ==
    IF k = "" THEN w
    ELSE Slice(w, KeyAffixLen, Len(w) - KeyAffixLen)

\* wrapped[16:-16] when both affixes match; no length test is made
_remove_key_wrap(w, k) ==
    IF k = "" THEN w
    ELSE IF startswith(w, KeyPrefix(k)) /\ endswith(w, KeySuffix(k))
         THEN Slice(w, KeyAffixLen, Len(w) - KeyAffixLen)
    ELSE InvalidKey

--------------------------------------------------------------------------
(* LSBPlane *)

Size(channel) == channel.h * channel.w

\* SetLsb with the bit ORed in, bit 0 not cleared first
SetLsb_NoClear(v, bit) == IF v % 2 = 1 THEN v ELSE v + (bit % 2)

\* SetLsb with the bit stored as the whole sample
SetLsb_Store(v, bit) == bit % 2

\* (flat[idx] & 0xFE) | (bit & 1) on a uint8 sample
SetLsb(v, bit) == (v - (v % 2)) + (bit % 2)

lsb_embed(channel_image, message_bits, start) ==
    IF start + Len(message_bits) > Size(channel_image)
    THEN Raise("LSB capacity too small for this payload part.")
    ELSE Ok([channel_image EXCEPT !.px =
                [idx \in 1..Size(channel_image) |->
                    IF idx - 1 >= start /\ idx - 1 < start + Len(message_bits)
                    THEN SetLsb(channel_image.px[idx], message_bits[idx - start])
                    ELSE channel_image.px[idx]]])

lsb_extract(channel_image, length, start) ==
    IF start >= Size(channel_image) THEN <<>>
    ELSE [i \in 1..Min(length, Size(channel_image) - start) |->
            channel_image.px[start + i] % 2]

--------------------------------------------------------------------------
(* DCTPlane *)

\* sign of cos((2k+1) * CoefPos * pi / 16), the basis of coefficient CoefPos
Sigma(k) ==
    LET phase == ((2 * k + 1) * CoefPos) % 32
    IN  IF phase < 8 \/ phase > 24 THEN 1 ELSE -1

Pixel(channel, y, x) == channel.px[y * channel.w + x + 1]

\* SUM over x of sigma(x) * f(y, sx + x), for x = k .. BlockSize - 1
RECURSIVE RowSum(_, _, _, _)
RowSum(channel, y, sx, k) ==
    IF k = BlockSize THEN 0
    ELSE Sigma(k) * Pixel(channel, y, sx + k) + RowSum(channel, y, sx, k + 1)

\* 8 * cv2.dct(block)[4, 4] for the block whose top-left sample is (sy, sx):
\* the rows k .. BlockSize - 1
RECURSIVE CoefSum(_, _, _, _)
CoefSum(channel, sy, sx, k) ==
    IF k = BlockSize THEN 0
    ELSE Sigma(k) * RowSum(channel, sy + k, sx, 0) + CoefSum(channel, sy, sx, k + 1)

BlocksY(channel) == channel.h \div BlockSize
BlocksX(channel) == channel.w \div BlockSize
TotalBlocks(channel) == BlocksY(channel) * BlocksX(channel)

\* the coefficient, in eighths, of block number n in the loops' order
\* (for by in range(blocks_y): for bx in range(blocks_x))
Coef8(channel, n) ==
    CoefSum(channel, (n \div BlocksX(channel)) * BlockSize,
                     (n % BlocksX(channel)) * BlockSize, 0)

\* int(round(coeff)) of a numpy float: round half to even (c8 in eighths)
RoundCoef(c8) ==
    LET q == c8 \div 8
        r == c8 % 8
    IN  IF r < 4 THEN q
        ELSE IF r > 4 THEN q + 1
        ELSE IF q % 2 = 0 THEN q ELSE q + 1

\* int(round(coef)) & 1
CoefParity(channel, n) == RoundCoef(Coef8(channel, n)) % 2

\* what is added to the coefficient of block n when `desired` is embedded
Nudge(channel, n, desired) ==
    LET c8 == Coef8(channel, n)
    IN  IF RoundCoef(c8) % 2 # desired
        THEN (IF c8 >= 0 THEN 1 ELSE -1)
        ELSE 0

\* one sample of np.clip(cv2.idct(dct_block), 0, 255).astype(np.uint8):
\* v + delta * (+-1/8), clipped, truncated
Recon(v, delta, sign) ==
    Max(0, Min(8 * 255, 8 * v + delta * sign)) \div 8

\* the samples after the loops: block n (n < number of bits) is rebuilt from its
\* nudged coefficient, every other sample is left as it was
EmbedBlocks(gray_image, nbits, nudges) ==
    [idx \in 1..Size(gray_image) |->
        LET y == (idx - 1) \div gray_image.w
            x == (idx - 1) % gray_image.w
            by == y \div BlockSize
            bx == x \div BlockSize
            n == by * BlocksX(gray_image) + bx
        IN  IF by < BlocksY(gray_image) /\ bx < BlocksX(gray_image) /\ n < nbits
            THEN Recon(gray_image.px[idx], nudges[n + 1],
                       Sigma(y % BlockSize) * Sigma(x % BlockSize))
            ELSE gray_image.px[idx]]

\* the loops run over every block from block 0 with bit_idx counting the
\* blocks visited; start_block enters the capacity test only
dct_embed(gray_image, message_bits, start_block) ==
    IF start_block + Len(message_bits) > TotalBlocks(gray_image)
    THEN Raise("DCT capacity too small for this payload part.")
    ELSE Ok([gray_image EXCEPT !.px =
                With([n \in 1..Len(message_bits) |->
                        Nudge(gray_image, n - 1, message_bits[n])],
                     LAMBDA nudges : EmbedBlocks(gray_image, Len(message_bits), nudges))])

dct_extract(gray_image, length, start_block) ==
    IF start_block >= TotalBlocks(gray_image) THEN <<>>
    ELSE [i \in 1..Min(length, TotalBlocks(gray_image)) |->
            CoefParity(gray_image, i - 1)]

--------------------------------------------------------------------------
(* HybridAllocator *)

\* cv2.split / cv2.merge
Plane(image_bgr, c) == [h |-> image_bgr.h, w |-> image_bgr.w, px |-> image_bgr.ch[c]]
Merge(b, g, r) == [h |-> b.h, w |-> b.w, ch |-> <<b.px, g.px, r.px>>]

\* b.size + (g.shape[0] // 8) * (g.shape[1] // 8)
hybrid_total_capacity(image_bgr) ==
    Size(Plane(image_bgr, 1)) + TotalBlocks(Plane(image_bgr, 2))

hybrid_embed(image_bgr, message_bits) ==
    IF Len(image_bgr.ch) # 3 THEN Raise("Expected BGR color image")
    ELSE
    LET b == Plane(image_bgr, 1)
        g == Plane(image_bgr, 2)
        r == Plane(image_bgr, 3)
        b_capacity == Size(b)
    IN  IF Len(message_bits) > hybrid_total_capacity(image_bgr)
        THEN Raise("Payload too large for image.")
        ELSE IF Len(message_bits) <= b_capacity
        THEN LET b_stego == lsb_embed(b, message_bits, 0)
             IN  IF b_stego.err # NoErr THEN b_stego
                 ELSE Ok(Merge(b_stego.val, g, r))
        ELSE LET bits_b == Slice(message_bits, 0, b_capacity)
                 bits_g == Slice(message_bits, b_capacity, Len(message_bits))
                 b_stego == lsb_embed(b, bits_b, 0)
                 g_stego == dct_embed(g, bits_g, 0)
             IN  IF b_stego.err # NoErr THEN b_stego
                 ELSE IF g_stego.err # NoErr THEN g_stego
                 ELSE Ok(Merge(b_stego.val, g_stego.val, r))

hybrid_extract(image_bgr, total_length) ==
    LET b == Plane(image_bgr, 1)
        g == Plane(image_bgr, 2)
        b_capacity == Size(b)
    IN  IF total_length <= b_capacity
        THEN lsb_extract(b, total_length, 0)
        ELSE lsb_extract(b, b_capacity, 0)
             \o dct_extract(g, total_length - b_capacity, 0)

--------------------------------------------------------------------------
(* Orchestrator *)

\* h * w + (h // 8) * (w // 8)
embed_total_capacity(image_bgr) ==
    image_bgr.h * image_bgr.w
        + (image_bgr.h \div BlockSize) * (image_bgr.w \div BlockSize)

\* header_bits + payload_bits
FramedBits(msg, k) ==
    LET payload_bytes == Utf8Encode(_apply_key_wrap(msg, k))
    IN  _len_prefix_bits(Len(payload_bytes)) \o text_to_bits(payload_bytes)

\* TooLarge with >= for >: an exact fit is rejected
TooLarge_Strict(nbits, total_capacity) == nbits >= total_capacity

\* if len(all_bits) > total_capacity
TooLarge(nbits, total_capacity) == nbits > total_capacity

\* ndarray.copy(): a new array on the heap
np_copy(heap, ref) == [heap |-> Append(heap, heap[ref]), ref |-> Len(heap) + 1]

\* embed_message without the copy, the result stored through the argument
embed_message_InPlace(heap, ref, msg, k) ==
    LET all_bits == FramedBits(msg, k)
        r == hybrid_embed(heap[ref], all_bits)
    IN  IF TooLarge(Len(all_bits), embed_total_capacity(heap[ref]))
        THEN [heap |-> heap, ret |-> Raise("Message too large!")]
        ELSE [heap |-> IF r.err = NoErr THEN [heap EXCEPT ![ref] = r.val] ELSE heap,
              ret |-> r]

\* heap: the arrays alive, ref: the caller's array.  Returns the heap after the
\* call and the call's result.
embed_message(heap, ref, msg, k) ==
    LET image_bgr == heap[ref]
        all_bits == FramedBits(msg, k)
    IN  IF image_bgr.h * image_bgr.w = 0
        THEN [heap |-> heap, ret |-> Raise("Invalid image array.")]
        ELSE IF TooLarge(Len(all_bits), embed_total_capacity(image_bgr))
        THEN [heap |-> heap, ret |-> Raise("Message too large!")]
        ELSE LET c == np_copy(heap, ref)
             IN  [heap |-> c.heap, ret |-> hybrid_embed(c.heap[c.ref], all_bits)]

\* A header of 2^MaxLenBits bytes or more makes extract_message pad its bit list
\* to that length and return a string of about as many characters; such a
\* result is not built here but marked.
HeaderInRange(header_bits) ==
    \A i \in 1..(HeaderLen - MaxLenBits) : header_bits[i] = 0
OutOfRange == [err |-> "payload length out of range", val |-> None]

extract_message(stego_bgr, k) ==
    IF stego_bgr.h * stego_bgr.w = 0 THEN Raise("Invalid image array.")
    ELSE
    LET header_bits == hybrid_extract(stego_bgr, HeaderLen)
    IN  IF Len(header_bits) < HeaderLen
        THEN Raise("Failed to read header bits from image.")
        ELSE IF ~HeaderInRange(header_bits) THEN OutOfRange
        ELSE
        LET msg_len_bytes == BitsToInt(header_bits)
            total_bits == HeaderLen + msg_len_bytes * 8
            got == hybrid_extract(stego_bgr, total_bits)
            all_bits == got \o [i \in 1..(total_bits - Len(got)) |-> 0]
            payload_bits == Slice(all_bits, HeaderLen, Len(all_bits))
        IN  Ok(_remove_key_wrap(bits_to_text(payload_bits), k))

--------------------------------------------------------------------------
(* Inputs *)

\* sample i (0-based, row-major) of plane c under fill pattern p
Fill(p, i, c) ==
    CASE p = "zero" -> 0
      [] p = "full" -> 255
      [] p = "ramp" -> (37 * i + 11 * c) % 256
      [] p = "dot"  -> IF i = 0 THEN 8 ELSE 0
      [] p = "neg"  -> IF i = 1 THEN 8 ELSE 0
      [] p = "half" -> IF i = 0 THEN 12 ELSE 0

MakePlane(h, w, p, c) == [h |-> h, w |-> w, px |-> [i \in 1..(h * w) |-> Fill(p, i - 1, c)]]

MakeImage(h, w, p) ==
    Merge(MakePlane(h, w, p, 1), MakePlane(h, w, p, 2), MakePlane(h, w, p, 3))

\* 5x8: no 8x8 block; 8x8: one block; 9x15: 135 samples and one block, so that a
\* 13-byte payload (136 bits) fills the image exactly and ends in the block;
\* 16x20: room for a key-wrapped payload of up to 4 message bytes, all in the
\* LSBs; 17x23: 391 samples and four blocks, so that a key-wrapped 13-byte
\* message (392 bits) ends in block 0
Shapes == {<<5, 8>>, <<8, 8>>, <<9, 15>>, <<16, 20>>, <<17, 23>>}
Images == {MakeImage(s[1], s[2], p) : s \in Shapes, p \in {"zero", "full", "ramp"}}

\* 'H', 'i', e-acute (2 bytes of UTF-8), euro sign (3 bytes)
Alphabet == {72, 105, 233, 8364}
Tails == {<<>>} \cup {<<c>> : c \in Alphabet}
Filler(n) == [i \in 1..n |-> 97 + (i % 26)]
Messages == {Filler(n) \o t : n \in 0..MaxFill, t \in Tails}

Keys == {"", "abc", "il"}

GrayShapes == {<<8, 8>>, <<8, 16>>, <<9, 15>>, <<16, 16>>}
Grays == {MakePlane(s[1], s[2], p, 2) :
            s \in GrayShapes, p \in {"zero", "full", "ramp", "dot", "neg", "half"}}

RECURSIVE BitSeqs(_)
BitSeqs(n) ==
    IF n = 0 THEN {<<>>}
    ELSE BitSeqs(n - 1) \cup {Append(b, d) : b \in {x \in BitSeqs(n - 1) : Len(x) = n - 1},
                                              d \in {0, 1}}

\* strings made of a cut digest prefix, a short middle and a cut digest suffix
WrapKeys == {"abc", "xyz", "il"}
WrappedInputs ==
    {Slice(KeyPrefix(k1), 0, a) \o t \o Slice(KeySuffix(k2), b, KeyAffixLen) :
        k1 \in WrapKeys, k2 \in WrapKeys, a \in {0, 14, 16}, b \in {0, 2}, t \in Tails}

ChainImages == {MakeImage(s[1], s[2], p) : s \in {<<8, 8>>, <<16, 19>>}, p \in {"zero", "ramp"}}
ChainMessages == {<<>>, <<72>>, <<72, 105>>, <<233, 8364>>}
ChainKeys == {"", "abc"}

--------------------------------------------------------------------------
(* Drivers *)

Idle == [err |-> "idle", val |-> None]

InitCodec ==
    /\ image = MakeImage(8, 8, "zero") /\ message = <<>> /\ key = ""
    /\ stego = Idle /\ xkey = "" /\ recovered = Idle /\ log = <<>>
InitDct ==
    /\ gray = MakePlane(8, 8, "zero", 2) /\ dbits = <<>> /\ dstart = 0 /\ dlen = 0
    /\ dout = Idle /\ dext = <<>>
InitKey == wrapped = <<>> /\ unwrapped = <<>>

codecVars == <<image, message, key, stego, xkey, recovered, log>>
dctVars == <<gray, dbits, dstart, dlen, dout, dext>>
keyVars == <<wrapped, unwrapped>>

(* One embed_message call, then extract_message on its result *)

Init ==
    /\ image \in Images /\ message \in Messages /\ key \in Keys
    /\ stego = Idle /\ xkey = "" /\ recovered = Idle /\ log = <<>>
    /\ pc = "init"
    /\ InitDct /\ InitKey

EmbedMessage ==
    /\ pc = "init"
    /\ LET out == embed_message(<<image>>, 1, message, key)
       IN  /\ image' = out.heap[1]
           /\ stego' = out.ret
    /\ log' = Append(log, <<message, key>>)
    /\ pc' = "embedded"
    /\ UNCHANGED <<message, key, xkey, recovered, dctVars, keyVars>>

ExtractMessage ==
    /\ pc = "embedded"
    /\ stego.err = NoErr
    /\ \E k \in Keys :
        /\ xkey' = k
        /\ recovered' = extract_message(stego.val, k)
    /\ pc' = "extracted"
    /\ UNCHANGED <<image, message, key, stego, log, dctVars, keyVars>>

Next == EmbedMessage \/ ExtractMessage

Spec == Init /\ [][Next]_vars

(* Successive embed_message calls, each on the previous call's result *)

InitChain ==
    /\ image \in ChainImages /\ message = <<>> /\ key = ""
    /\ stego = Idle /\ xkey = "" /\ recovered = Idle /\ log = <<>>
    /\ pc = "chain"
    /\ InitDct /\ InitKey

ChainEmbed ==
    /\ pc = "chain"
    /\ Len(log) < MaxEmbeds
    /\ \E m \in ChainMessages, k \in ChainKeys :
        LET carrier == IF log = <<>> THEN image ELSE stego.val
            out == embed_message(<<carrier>>, 1, m, k)
        IN  /\ image' = out.heap[1]
            /\ stego' = out.ret
            /\ message' = m
            /\ key' = k
            /\ log' = Append(log, <<m, k>>)
            /\ pc' = IF out.ret.err = NoErr THEN "chain" ELSE "chain_failed"
    /\ UNCHANGED <<xkey, recovered, dctVars, keyVars>>

ChainExtract ==
    /\ pc = "chain"
    /\ log # <<>>
    /\ xkey' = key
    /\ recovered' = extract_message(stego.val, key)
    /\ pc' = "chain_extracted"
    /\ UNCHANGED <<image, message, key, stego, log, dctVars, keyVars>>

NextChain == ChainEmbed \/ ChainExtract

SpecChain == InitChain /\ [][NextChain]_vars

(* dct_embed and dct_extract on a single-channel array *)

InitDctPlane ==
    /\ gray \in Grays
    /\ dbits \in BitSeqs(MaxDctBits)
    /\ dstart \in 0..MaxDctBits
    /\ dlen \in 0..(MaxDctBits + 1)
    /\ dout = Idle /\ dext = <<>>
    /\ pc = "dct"
    /\ InitCodec /\ InitKey

DctEmbed ==
    /\ pc = "dct"
    /\ dout' = dct_embed(gray, dbits, dstart)
    /\ pc' = "dct_embedded"
    /\ UNCHANGED <<gray, dbits, dstart, dlen, dext, codecVars, keyVars>>

\* dct_extract on what dct_embed returned, for as many bits as were embedded
DctReadBack ==
    /\ pc = "dct_embedded"
    /\ dout.err = NoErr
    /\ dext' = dct_extract(dout.val, Len(dbits), dstart)
    /\ pc' = "dct_read"
    /\ UNCHANGED <<gray, dbits, dstart, dlen, dout, codecVars, keyVars>>

DctExtract ==
    /\ pc = "dct"
    /\ dext' = dct_extract(gray, dlen, dstart)
    /\ pc' = "dct_extracted"
    /\ UNCHANGED <<gray, dbits, dstart, dlen, dout, codecVars, keyVars>>

NextDct == DctEmbed \/ DctReadBack \/ DctExtract

SpecDct == InitDctPlane /\ [][NextDct]_vars

(* _apply_key_wrap and _remove_key_wrap on strings *)

InitKeyWrap ==
    /\ \/ /\ wrapped \in WrappedInputs /\ message = <<>> /\ key = "" /\ pc = "wrapped"
       \/ /\ wrapped = <<>> /\ message \in Messages /\ key \in Keys \cup WrapKeys
          /\ pc = "plain"
    /\ xkey \in Keys \cup WrapKeys
    /\ unwrapped = <<>>
    /\ image = MakeImage(8, 8, "zero")
    /\ stego = Idle /\ recovered = Idle /\ log = <<>>
    /\ InitDct

ApplyKeyWrap ==
    /\ pc = "plain"
    /\ wrapped' = _apply_key_wrap(message, key)
    /\ pc' = "wrapped"
    /\ UNCHANGED <<unwrapped, codecVars, dctVars>>

RemoveKeyWrap ==
    /\ pc = "wrapped"
    /\ unwrapped' = _remove_key_wrap(wrapped, xkey)
    /\ pc' = "unwrapped"
    /\ UNCHANGED <<wrapped, codecVars, dctVars>>

NextKey == ApplyKeyWrap \/ RemoveKeyWrap

SpecKey == InitKeyWrap /\ [][NextKey]_vars

--------------------------------------------------------------------------
(* Properties *)

Embedded == pc \in {"embedded", "extracted"}

\* 32 + 8 * len(UTF8(wrap(message, key)))
FramedLen(msg, k) == HeaderLen + 8 * Len(Utf8Encode(_apply_key_wrap(msg, k)))

LsbCapacity(img) == img.h * img.w
TotalCapacity(img) ==
    img.h * img.w + (img.h \div BlockSize) * (img.w \div BlockSize)

\* C1: extract_message(embed_message(image, message, key), key) returns exactly
\* message whenever the framed bitstream fits total_capacity, also when it
\* overflows into the DCT blocks of the second channel.
C1_RoundTrip ==
    (pc = "extracted" /\ xkey = key) => recovered = Ok(message)

\* C2: a message embedded with a non-empty key and extracted with a different
\* non-empty key comes back as the normal return value "Invalid Key!", not as
\* the message and not as an error.
C2_KeyMismatch ==
    (pc = "extracted" /\ key # "" /\ xkey # "" /\ xkey # key)
        => /\ recovered.err = NoErr
           /\ recovered.val = InvalidKey
           /\ recovered.val # message

C2_Witness ==
    /\ pc = "extracted" /\ key = "abc" /\ xkey = "il"
    /\ Len(message) > 0
    /\ recovered = Ok(InvalidKey)

\* C3: embed_message returns an image exactly when the framed bit count is at
\* most total_capacity (equality included) and raises its capacity error
\* otherwise; hybrid_embed's own capacity test never decides differently.
C3_CapacityBoundary ==
    Embedded =>
        /\ FramedLen(message, key) <= TotalCapacity(image) => stego.err = NoErr
        /\ FramedLen(message, key) > TotalCapacity(image)
                => stego.err = "Message too large!"
        /\ hybrid_total_capacity(image) = TotalCapacity(image)

\* an exact fit whose last bit lies in a DCT block
C3_Witness ==
    /\ pc = "embedded"
    /\ FramedLen(message, key) = TotalCapacity(image)
    /\ FramedLen(message, key) > LsbCapacity(image)
    /\ stego.err = NoErr

\* C4: a call of embed_message leaves every sample of the caller's array as it
\* was, whether it returns or raises, and a returned image has the input's
\* height, width and channel count.
C4_InputNotMutated ==
    [][EmbedMessage =>
        /\ image' = image
        /\ stego'.err = NoErr =>
            /\ stego'.val.h = image.h
            /\ stego'.val.w = image.w
            /\ Len(stego'.val.ch) = Len(image.ch)
            /\ \A c \in 1..Len(image.ch) : Len(stego'.val.ch[c]) = Len(image.ch[c])]_vars

\* the call returned an image that differs from its input
C4_Witness ==
    /\ pc = "embedded" /\ stego.err = NoErr
    /\ stego.val # image

\* C5: when the framed bitstream has n <= lsb_capacity bits, the result differs
\* from the input only in bit 0 of the first channel's samples 0..n-1.
C5_LsbFrame ==
    (Embedded /\ stego.err = NoErr /\ FramedLen(message, key) <= LsbCapacity(image))
        => /\ stego.val.ch[2] = image.ch[2]
           /\ stego.val.ch[3] = image.ch[3]
           /\ \A j \in 1..LsbCapacity(image) :
                /\ stego.val.ch[1][j] \div 2 = image.ch[1][j] \div 2
                /\ j > FramedLen(message, key) => stego.val.ch[1][j] = image.ch[1][j]

\* an embedding that fills the first channel exactly and changes it
C5_Witness ==
    /\ pc = "embedded" /\ stego.err = NoErr
    /\ FramedLen(message, key) = LsbCapacity(image)
    /\ stego.val.ch[1] # image.ch[1]

\* C6: dct_extract on the 8-bit channel dct_embed returned yields, for every
\* block that received a bit, exactly the bit embedded.
C6_DctDeterminism ==
    (pc = "dct_read" /\ dstart = 0) => dext = dbits

\* C7: with a non-empty key, _remove_key_wrap returns the inner text only if the
\* string starts with digest[0:16], ends with digest[-16:] and has at least 32
\* characters; in every other case it returns "Invalid Key!".
C7_UnwrapChecksLength ==
    (pc = "unwrapped" /\ xkey # "")
        => IF /\ startswith(wrapped, KeyPrefix(xkey))
              /\ endswith(wrapped, KeySuffix(xkey))
              /\ Len(wrapped) >= 2 * KeyAffixLen
           THEN unwrapped = Slice(wrapped, KeyAffixLen, Len(wrapped) - KeyAffixLen)
           ELSE unwrapped = InvalidKey

\* C8: after a successful embed_message every framed bit i < lsb_capacity
\* (the 32 header bits first) is the LSB of first-channel sample i, every
\* framed bit i >= lsb_capacity is the coefficient parity of second-channel
\* block i - lsb_capacity, and hybrid_extract reads the bits back in that
\* order.
C8_BitstreamLayout ==
    (Embedded /\ stego.err = NoErr)
        => LET bits == FramedBits(message, key)
               cap == LsbCapacity(image)
           IN  /\ \A i \in 0..(Len(bits) - 1) :
                    IF i < cap
                    THEN stego.val.ch[1][i + 1] % 2 = bits[i + 1]
                    ELSE CoefParity(Plane(stego.val, 2), i - cap) = bits[i + 1]
               /\ hybrid_extract(stego.val, Len(bits)) = bits

\* the samples of block n of a single-channel array
BlockSamples(channel, n) ==
    [k \in 0..(BlockSize * BlockSize - 1) |->
        Pixel(channel, (n \div BlocksX(channel)) * BlockSize + (k \div BlockSize),
                       (n % BlocksX(channel)) * BlockSize + (k % BlockSize))]

\* C9: dct_extract(channel, count, startBlock) returns the parities of blocks
\* startBlock, startBlock+1, ..., at most count of them, and
\* dct_embed(channel, bits, startBlock) writes bit i into block startBlock+i,
\* leaving every other block as it was.
C9_StartBlock ==
    /\ pc = "dct_extracted"
        => dext = [i \in 1..Min(dlen, Max(0, TotalBlocks(gray) - dstart)) |->
                        CoefParity(gray, dstart + i - 1)]
    /\ (pc = "dct_embedded" /\ dout.err = NoErr)
        => \A n \in 0..(TotalBlocks(gray) - 1) :
                (n < dstart \/ n >= dstart + Len(dbits))
                    => BlockSamples(dout.val, n) = BlockSamples(gray, n)

AllFitLsb == \A i \in 1..Len(log) : FramedLen(log[i][1], log[i][2]) <= LsbCapacity(image)

\* C10: after successive successful embed_message calls, each on the previous
\* call's result and each within lsb_capacity, extract_message with the last
\* call's key returns the last call's message; and embedding the message and
\* key just embedded again returns an identical image.
C10_LastEmbedWins ==
    /\ (pc = "chain_extracted" /\ AllFitLsb) => recovered = Ok(message)
    /\ (pc \in {"chain", "chain_extracted"} /\ AllFitLsb /\ Len(log) >= 2
            /\ log[Len(log)] = log[Len(log) - 1])
        => stego.val = image

\* a long keyed message, then a shorter unkeyed one embedded twice, then read
C10_Witness ==
    /\ pc = "chain_extracted" /\ Len(log) = 3
    /\ log[1][2] # "" /\ log[2][2] = ""
    /\ Len(log[1][1]) > Len(log[2][1]) /\ Len(log[2][1]) > 0
    /\ log[3] = log[2]
    /\ stego.val = image
    /\ recovered = Ok(message)

==========================================================================
